---- MODULE Spec2Model ----
(***************************************************************************)
(* Detection & orchestration engine of ParallaxKey (VaultGuard).           *)
(*                                                                         *)
(* The repository holds four generations of the ScannerEngine class, each  *)
(* with the BaseScanner it drives.  An engine instance is one of them:     *)
(*   "S5"  .aye/snapshots/005_20260112T220225/scanner-engine.ts            *)
(*         (status idle/scanning/completed/error, cancelScan)              *)
(*         + BaseScanner.executeScan of unnamed/part_017                   *)
(*   "RA"  src/scanners/network/request-analyzer.ts, class ScannerEngine   *)
(*         (status idle/scanning, stop) + BaseScanner.executeScan          *)
(*   "P12" unnamed/part_012, class ScannerEngine (activeScan.progress,     *)
(*         cancelScan) + BaseScanner.scan of snapshots/004 (timeout race)  *)
(*   "F5"  unnamed/part_005, class ScannerEngine (activeScan id,           *)
(*         runFullScan/runQuickScan/cancelScan)                            *)
(*         + BaseScanner.execute of unnamed/part_004 (timeout race)        *)
(*                                                                         *)
(* JavaScript runs each piece of code between two awaits atomically, so    *)
(* one action is one such piece: a call up to its first pending await, or  *)
(* the continuation after an awaited detector settled up to the next one.  *)
(***************************************************************************)
EXTENDS Integers, Sequences, FiniteSets, TLC

\* ------------------------------------------------------------------ bounds
MaxScans == 2        \* scan()/runFullScan()/runQuickScan() calls on the instance
NumDetectors == 2    \* registered, enabled detectors
MaxFindings == 1     \* findings one detector run adds
MaxTimeouts == 1     \* detector runs that lose the race to their timer
NumTabs == 2         \* browser tabs
MaxHandlers == 2     \* START_SCAN messages / auto scans the background handles
MaxStates == 3       \* TabState objects the background creates
MaxLen == 9          \* length of a secret / storage value
MaxText == 4         \* length of a text handed to the pattern matcher
MaxCalls == 3        \* calls of the pattern matcher on that text
MaxScore == 100      \* largest score handed to a grade function
MaxList == 2         \* findings in a list handed to a risk score function
MaxPages == 2        \* pages a tab loads, the first one included
MaxDup == 2          \* findings one detector returns / matches in one script / scripts

\* maskSecret(secret, visibleChars = 4), maskValue(value, visibleChars = 4)
VisibleChars == 4
\* '*'.repeat(Math.min(secret.length - visibleChars * 2, 20))
MaxStars == 20
\* mask(s): if (!s || s.length < 8) return '****'
MaskMinLen == 8

\* quickScanners = ['api-key-scanner', 'header-scanner']
QuickCount == 2

Scans == 1..MaxScans
Tabs == 1..NumTabs
Handlers == 1..MaxHandlers
StateIds == 1..MaxStates
Backgrounds == {"SW", "W5", "P14"}   \* the services that handle START_SCAN
Orchestrators == {"SO"}              \* ScannerOrchestrator, called directly
Detectors == 1..NumDetectors
Impls == {"S5", "RA", "P12", "F5"}

VARIABLES
  impl,         \* which ScannerEngine class the instance is
  nscans,       \* scan calls made so far; call number s uses scanId s
  status,       \* S5, RA: this.status
  currentScan,  \* S5, RA: this.currentScan, 0 = null, else the ScanResult object
  scanObj,      \* S5, RA: the ScanResult objects, by creating call
  activeScan,   \* P12: this.activeScan (0 = null, else its scan); F5: the id
  progress,     \* P12: activeScan.progress objects, by scan
  emitted,      \* P12: progress snapshots handed to the progress callback, by emitting call
  scanHistory,  \* F5: this.scanHistory (scan ids of the summaries)
  pc,           \* per call: "idle", "await", "returned", "rejected"
  mode,         \* per call: "scan", "full", "quick"
  idx,          \* per call: the detector being awaited
  results,      \* per call: local results[]
  allFindings,  \* per call: local allFindings / allVulns
  ret,          \* per call: what the call returned
  run,          \* per call and detector: the detector body's promise
  timedOut,     \* per call and detector: the timeout timer won the race
  added,        \* per call and detector: findings the body has added
  fref,         \* per detector instance: the array this.findings / this.vulnerabilities
  heap,         \* contents of the findings arrays, by creating run
  cancelled     \* per call: cancelScan()/stop() was called while the call was in flight

\* the background service (service worker), which owns the per-tab state
VARIABLES
  bg,           \* which background script runs
  tabStates,    \* W5, P14: tabStates map, tab -> its TabState object (0 = no entry)
  isScanning,   \* W5, P14: the isScanning field of each TabState object
  nstates,      \* TabState objects created so far
  scanning,     \* SW: the set `scanning` of tab ids
  closed,       \* tabs that were removed
  engStatus,    \* W5: scannerEngine.status
  nhandlers,    \* start-scan handler invocations so far
  hpc,          \* per handler: "idle", "query", "dom", "scan", "done", "refused", "failed"
  htab,         \* per handler: its tab
  hobj,         \* per handler: the TabState object its local `state` refers to
  activeScanTabId, \* SO: ScannerOrchestrator.activeScanTabId (0 = null)
  page,         \* per tab: the page loaded in it, counted from 1
  tabResults,   \* SW: the map `results`, SO: scanResults; tab -> the page its result is of (0 = no entry)
  lastScan,     \* W5: state.lastScan, P14: tabState.findings; per TabState object, same coding
  hpage         \* per handler: the page its tab showed when the handler started

pageVars == <<page, tabResults, lastScan, hpage>>

tabVars == <<bg, tabStates, isScanning, nstates, scanning, closed, engStatus,
             nhandlers, hpc, htab, hobj, activeScanTabId, pageVars>>

\* one call of a helper function or of a finding constructor
VARIABLES
  callFn,       \* the function called ("none" before any call)
  callArg,      \* its arguments, by parameter name
  callOut       \* what it returned

libVars == <<callFn, callArg, callOut>>

\* the pattern matcher over the shared SECRET_PATTERNS table
VARIABLES
  matcher,      \* which matcher is called
  mText,        \* the text every call gets
  lastIndex,    \* per pattern: the lastIndex of its (global) RegExp object
  mCalls        \* the finding sets the calls returned, in call order

matchVars == <<matcher, mText, lastIndex, mCalls>>

auxVars == <<tabVars, libVars, matchVars>>

scanVars == <<impl, nscans, status, currentScan, scanObj, activeScan, progress, emitted,
              scanHistory, pc, mode, idx, results, allFindings, ret, run, timedOut,
              added, fref, heap, cancelled>>

vars == <<scanVars, auxVars>>

engineVars == <<status, currentScan, scanObj, activeScan, progress, scanHistory>>
callVars == <<pc, mode, idx, results, allFindings, ret>>
detVars == <<run, timedOut, added, fref, heap>>

\* ----------------------------------------------------------------- values
Nil == <<0, 0>>                      \* the array literal []
ArrayIds == Scans \X Detectors       \* the array created by run (s, d)

\* the contents of a findings array
FindingsOf(h, ref) == IF ref = Nil THEN <<>> ELSE h[ref]

NoObj == [status |-> "none", vulnerabilities |-> <<>>, total |-> 0]
NoProgress == [status |-> "none", currentScanner |-> 0, completedScanners |-> <<>>,
               findingsCount |-> 0, progress |-> 0]
NoRet == [kind |-> "none", obj |-> 0, results |-> <<>>, findings |-> <<>>]

\* ScannerResult / ScanResult of one detector
Result(d, st, err, ref) == [det |-> d, status |-> st, error |-> err, ref |-> ref]

RECURSIVE Concat(_, _)
\* the findings of a list of detector results, in order
Concat(h, rs) ==
  IF rs = <<>> THEN <<>> ELSE FindingsOf(h, Head(rs).ref) \o Concat(h, Tail(rs))

\* the last detector a call of mode m runs (runQuickScan: the quickScanners)
LastOf(m) == IF m = "quick" /\ QuickCount < NumDetectors THEN QuickCount ELSE NumDetectors

Race == impl \in {"P12", "F5"}       \* the BaseScanner races the body against a timer

\* the background service before any message: no TabState, nothing scanning
TabInit ==
  /\ tabStates = [t \in Tabs |-> 0]
  /\ isScanning = [o \in StateIds |-> FALSE]
  /\ nstates = 0
  /\ scanning = {}
  /\ closed = {}
  /\ engStatus = "idle"
  /\ nhandlers = 0
  /\ hpc = [h \in Handlers |-> "idle"]
  /\ htab = [h \in Handlers |-> 0]
  /\ hobj = [h \in Handlers |-> 0]
  /\ activeScanTabId = 0
  /\ page = [t \in Tabs |-> 1]
  /\ tabResults = [t \in Tabs |-> 0]
  /\ lastScan = [o \in StateIds |-> 0]
  /\ hpage = [h \in Handlers |-> 0]

\* no helper called yet
LibIdle ==
  /\ callFn = "none"
  /\ callArg = <<>>
  /\ callOut = <<>>

\* the pattern table as the module creates it, no matcher called
MatchIdle ==
  /\ matcher = "none"
  /\ mText = <<>>
  /\ lastIndex = [q \in {"a", "*"} |-> 0]
  /\ mCalls = <<>>

\* no background script around the engine
BGIdle ==
  /\ bg = "none"
  /\ TabInit

\* ------------------------------------------------------------------- Init
\* a ScannerEngine after construction
ScanIdle ==
  /\ nscans = 0
  /\ status = "idle"
  /\ currentScan = 0
  /\ scanObj = [s \in Scans |-> NoObj]
  /\ activeScan = 0
  /\ progress = [s \in Scans |-> NoProgress]
  /\ emitted = [s \in Scans |-> <<>>]
  /\ scanHistory = <<>>
  /\ pc = [s \in Scans |-> "idle"]
  /\ mode = [s \in Scans |-> "scan"]
  /\ idx = [s \in Scans |-> 0]
  /\ results = [s \in Scans |-> <<>>]
  /\ allFindings = [s \in Scans |-> <<>>]
  /\ ret = [s \in Scans |-> NoRet]
  /\ run = [s \in Scans |-> [d \in Detectors |-> "none"]]
  /\ timedOut = [s \in Scans |-> [d \in Detectors |-> FALSE]]
  /\ added = [s \in Scans |-> [d \in Detectors |-> 0]]
  /\ fref = [d \in Detectors |-> Nil]
  /\ heap = [a \in ArrayIds |-> <<>>]
  /\ cancelled = [s \in Scans |-> FALSE]

\* one ScannerEngine instance, looked at on its own (no background script)
Init ==
  /\ impl \in Impls
  /\ ScanIdle
  /\ BGIdle
  /\ LibIdle
  /\ MatchIdle

\* ---------------------------------------------------- the detector bodies
\* (not the code) every detector from d on started at once, as by a Promise.all
StartedRunAll(rn, s, d) ==
  [rn EXCEPT ![s] = [e \in Detectors |-> IF e >= d /\ rn[s][e] = "none" THEN "running" ELSE rn[s][e]]]

\* this.findings = [] / this.reset() / const vulns = []: the run gets a fresh array
StartedRun(rn, s, d) == [rn EXCEPT ![s][d] = "running"]
StartedFref(f, s, d) == IF Race THEN [f EXCEPT ![d] = <<s, d>>] ELSE f
StartedHeap(h, s, d) == [h EXCEPT ![<<s, d>>] = <<>>]

\* the array a running body pushes to: the instance field under the race
\* engines (addFinding / addVulnerability), the closure's own vulns otherwise
TargetArray(s, d) == IF Race THEN fref[d] ELSE <<s, d>>

\* a detector body is executing: started and its promise not settled
Executing(s, d) == run[s][d] = "running"

\* the body of detector d, started by call s, adds a finding
DetectorAdd(s, d) ==
  /\ run[s][d] = "running"
  /\ added[s][d] < MaxFindings
  /\ added' = [added EXCEPT ![s][d] = @ + 1]
  /\ heap' = [heap EXCEPT ![TargetArray(s, d)] = Append(@, <<s, d, added[s][d] + 1>>)]
  /\ UNCHANGED <<auxVars, impl, nscans, engineVars, emitted, callVars, run, timedOut, fref, cancelled>>

\* a body that lost the race to the timer settles in the background, unobserved
DetectorSettleLate(s, d) ==
  /\ run[s][d] = "running"
  /\ timedOut[s][d]
  /\ run' = [run EXCEPT ![s][d] = "settled"]
  /\ UNCHANGED <<auxVars, impl, nscans, engineVars, emitted, callVars, timedOut, added, fref, heap, cancelled>>

\* --------------------------------------------------------- the BaseScanner
\* what the BaseScanner wrapper returns for detector d when the awaited
\* promise settles with `outcome` ("resolved", "rejected" or "timeout")
BaseResult(s, d, outcome) ==
  CASE impl \in {"S5", "RA"} ->
         \* executeScan: createResult(vulns, start) / createResult([], start, e.message)
         IF outcome = "resolved" THEN Result(d, "none", "none", <<s, d>>)
         ELSE Result(d, "none", "error", Nil)
    [] impl = "P12" ->
         \* scan: findings: this.findings whatever the status
         IF outcome = "resolved" THEN Result(d, "completed", "none", fref[d])
         ELSE IF outcome = "timeout" THEN Result(d, "failed", "Timeout", fref[d])
         ELSE Result(d, "failed", "error", fref[d])
    [] OTHER ->
         \* execute: getResult() / the catch's vulnerabilities: this.vulnerabilities
         IF outcome = "resolved" THEN Result(d, "none", "none", fref[d])
         ELSE IF outcome = "timeout" THEN Result(d, "none", "Scan timeout", fref[d])
         ELSE Result(d, "none", "error", fref[d])

\* call s awaits its detector idx[s], whose body has not settled
Awaiting(s) ==
  /\ pc[s] = "await"
  /\ run[s][idx[s]] = "running"
  /\ ~timedOut[s][idx[s]]

\* the detector runs whose timer fired before the body settled
TimedOutRuns == {x \in Scans \X Detectors : timedOut[x[1]][x[2]]}

\* the timer of the race may fire while call s awaits
TimerMayFire(s) ==
  /\ Race
  /\ Awaiting(s)
  /\ Cardinality(TimedOutRuns) < MaxTimeouts

\* cancelScan()/stop() was called while these calls were in flight
NoteCancel == cancelled' = [s \in Scans |-> cancelled[s] \/ pc[s] = "await"]

\* ------------------------------------------- S5: snapshots/005 ScannerEngine
\* scan(): the guard, then everything up to the first detector's await.
\* (The catch of scan() is not modelled: executeScan catches every throw of a
\* detector body, and initialize()/cleanup() only log, so nothing reaches it.)
Scan_S5 ==
  /\ impl = "S5"
  /\ nscans < MaxScans
  /\ LET s == nscans + 1 IN
     /\ nscans' = s
     /\ IF status = "scanning"
        THEN \* throw new Error('Scan in progress')
             /\ pc' = [pc EXCEPT ![s] = "rejected"]
             /\ ret' = [ret EXCEPT ![s] = [NoRet EXCEPT !.kind = "Scan in progress"]]
             /\ UNCHANGED <<status, currentScan, scanObj, idx, run, fref, heap>>
        ELSE /\ status' = "scanning"
             /\ currentScan' = s
             /\ scanObj' = [scanObj EXCEPT ![s] =
                              [status |-> "scanning", vulnerabilities |-> <<>>, total |-> 0]]
             /\ pc' = [pc EXCEPT ![s] = "await"]
             /\ idx' = [idx EXCEPT ![s] = 1]
             /\ run' = StartedRun(run, s, 1)
             /\ fref' = StartedFref(fref, s, 1)
             /\ heap' = StartedHeap(heap, s, 1)
             /\ UNCHANGED ret
  /\ UNCHANGED <<auxVars, impl, activeScan, progress, emitted, scanHistory, mode, results,
                 allFindings, timedOut, added, cancelled>>

\* the continuation of scan() once the awaited scanner.scan(context) settled:
\* results.push, then the next scanner, or the aggregation and the return
Resume_S5(s, outcome) ==
  /\ impl = "S5"
  /\ Awaiting(s)
  /\ LET d == idx[s]
         rn == [run EXCEPT ![s][d] = outcome]
         rs == Append(results[s], BaseResult(s, d, outcome))
         allVulns == Concat(heap, rs)
     IN /\ results' = [results EXCEPT ![s] = rs]
        /\ IF d < NumDetectors
           THEN /\ idx' = [idx EXCEPT ![s] = d + 1]
                /\ run' = StartedRun(rn, s, d + 1)
                /\ fref' = StartedFref(fref, s, d + 1)
                /\ heap' = StartedHeap(heap, s, d + 1)
                /\ UNCHANGED <<status, scanObj, pc, allFindings, ret>>
           ELSE \* this.currentScan.vulnerabilities = allVulns; ...; this.status = 'completed'
                /\ allFindings' = [allFindings EXCEPT ![s] = allVulns]
                /\ scanObj' = [scanObj EXCEPT ![currentScan] =
                                 [status |-> "completed", vulnerabilities |-> allVulns,
                                  total |-> Len(allVulns)]]
                /\ status' = "completed"
                /\ pc' = [pc EXCEPT ![s] = "returned"]
                /\ ret' = [ret EXCEPT ![s] = [kind |-> "result", obj |-> currentScan,
                                              results |-> <<>>, findings |-> allVulns]]
                /\ run' = rn
                /\ UNCHANGED <<idx, fref, heap>>
  /\ UNCHANGED <<auxVars, impl, nscans, currentScan, activeScan, progress, emitted, scanHistory,
                 mode, timedOut, added, cancelled>>

\* cancelScan() { this.status = 'idle'; }
CancelScan_S5 ==
  /\ impl = "S5"
  /\ status' = "idle"
  /\ NoteCancel
  /\ UNCHANGED <<auxVars, impl, nscans, currentScan, scanObj, activeScan, progress, emitted,
                 scanHistory, callVars, detVars>>

\* ------------------------- RA: request-analyzer.ts, class ScannerEngine
Scan_RA ==
  /\ impl = "RA"
  /\ nscans < MaxScans
  /\ LET s == nscans + 1 IN
     /\ nscans' = s
     /\ IF status = "scanning"
        THEN \* throw new Error('Scan already in progress')
             /\ pc' = [pc EXCEPT ![s] = "rejected"]
             /\ ret' = [ret EXCEPT ![s] = [NoRet EXCEPT !.kind = "Scan in progress"]]
             /\ UNCHANGED <<status, idx, run, fref, heap>>
        ELSE /\ status' = "scanning"
             /\ pc' = [pc EXCEPT ![s] = "await"]
             /\ idx' = [idx EXCEPT ![s] = 1]
             /\ run' = StartedRun(run, s, 1)
             /\ fref' = StartedFref(fref, s, 1)
             /\ heap' = StartedHeap(heap, s, 1)
             /\ UNCHANGED ret
  /\ UNCHANGED <<auxVars, impl, currentScan, scanObj, activeScan, progress, emitted, scanHistory,
                 mode, results, allFindings, timedOut, added, cancelled>>

\* the continuation of scan(): allVulns.push(...result.vulnerabilities), then the
\* next scanner, or the summary, this.currentScan = {...}, this.status = 'idle'.
\* The ScannerResult itself, and its error, is dropped.
Resume_RA(s, outcome) ==
  /\ impl = "RA"
  /\ Awaiting(s)
  /\ LET d == idx[s]
         rn == [run EXCEPT ![s][d] = outcome]
         r == BaseResult(s, d, outcome)
         allVulns == allFindings[s] \o FindingsOf(heap, r.ref)
     IN /\ allFindings' = [allFindings EXCEPT ![s] = allVulns]
        /\ IF d < NumDetectors
           THEN /\ idx' = [idx EXCEPT ![s] = d + 1]
                /\ run' = StartedRun(rn, s, d + 1)
                /\ fref' = StartedFref(fref, s, d + 1)
                /\ heap' = StartedHeap(heap, s, d + 1)
                /\ UNCHANGED <<status, currentScan, scanObj, pc, ret>>
           ELSE /\ currentScan' = s
                /\ scanObj' = [scanObj EXCEPT ![s] =
                                 [status |-> "completed", vulnerabilities |-> allVulns,
                                  total |-> Len(allVulns)]]
                /\ status' = "idle"
                /\ pc' = [pc EXCEPT ![s] = "returned"]
                /\ ret' = [ret EXCEPT ![s] = [kind |-> "result", obj |-> s,
                                              results |-> <<>>, findings |-> allVulns]]
                /\ run' = rn
                /\ UNCHANGED <<idx, fref, heap>>
  /\ UNCHANGED <<auxVars, impl, nscans, activeScan, progress, emitted, scanHistory, mode,
                 results, timedOut, added, cancelled>>

\* stop() { this.status = 'idle'; }
Stop_RA ==
  /\ impl = "RA"
  /\ status' = "idle"
  /\ NoteCancel
  /\ UNCHANGED <<auxVars, impl, nscans, currentScan, scanObj, activeScan, progress, emitted,
                 scanHistory, callVars, detVars>>

\* ---------------------------------- P12: unnamed/part_012 ScannerEngine
\* emitProgress(): the callback gets a copy of this.activeScan.progress
Snapshot(prog, a) ==
  [scanId |-> a, currentScanner |-> prog[a].currentScanner, progress |-> prog[a].progress,
   findingsCount |-> prog[a].findingsCount, status |-> prog[a].status]

\* scan(): no guard; this.activeScan is replaced, then the first loop iteration
Scan_P12 ==
  /\ impl = "P12"
  /\ nscans < MaxScans
  /\ LET s == nscans + 1
         prog == [progress EXCEPT ![s] =
                    [status |-> "running", currentScanner |-> 1, completedScanners |-> <<>>,
                     findingsCount |-> 0, progress |-> 0]]
     IN /\ nscans' = s
        /\ activeScan' = s
        /\ progress' = prog
        /\ emitted' = [emitted EXCEPT ![s] = Append(@, Snapshot(prog, s))]
        /\ pc' = [pc EXCEPT ![s] = "await"]
        /\ idx' = [idx EXCEPT ![s] = 1]
        /\ run' = StartedRun(run, s, 1)
        /\ fref' = StartedFref(fref, s, 1)
        /\ heap' = StartedHeap(heap, s, 1)
  /\ UNCHANGED <<auxVars, impl, status, currentScan, scanObj, scanHistory, mode, results,
                 allFindings, ret, timedOut, added, cancelled>>

\* the rest of scan() after `await scanner.scan(context)` returned r: the try
\* block (with its catch: this.activeScan may be null by now), the next loop
\* iteration with its cancellation check, or the end of scan()
Continue_P12(s, outcome) ==
  LET d == idx[s]
      r == BaseResult(s, d, outcome)
      rn == IF outcome = "timeout" THEN run ELSE [run EXCEPT ![s][d] = outcome]
      live == activeScan # 0
      \* results.push(result); allFindings.push(...result.findings);
      \* this.activeScan.progress... throws a TypeError when activeScan is null,
      \* and the catch pushes a second, failed result
      rs == IF live THEN Append(results[s], r)
            ELSE Append(Append(results[s], r), Result(d, "failed", "TypeError", Nil))
      all == allFindings[s] \o FindingsOf(heap, r.ref)
      p1 == IF live
            THEN [progress EXCEPT ![activeScan].completedScanners = Append(@, d),
                                  ![activeScan].findingsCount = Len(all)]
            ELSE progress
      more == d < NumDetectors /\ live /\ p1[activeScan].status # "cancelled"
      p2 == [p1 EXCEPT ![activeScan].currentScanner = d + 1,
                       ![activeScan].progress = (d * 100) \div NumDetectors]
      p3 == [p1 EXCEPT ![activeScan].status = "completed", ![activeScan].progress = 100]
  IN /\ results' = [results EXCEPT ![s] = rs]
     /\ allFindings' = [allFindings EXCEPT ![s] = all]
     /\ IF more
        THEN /\ progress' = p2
             /\ emitted' = [emitted EXCEPT ![s] = Append(@, Snapshot(p2, activeScan))]
             /\ idx' = [idx EXCEPT ![s] = d + 1]
             /\ run' = StartedRun(rn, s, d + 1)
             /\ fref' = StartedFref(fref, s, d + 1)
             /\ heap' = StartedHeap(heap, s, d + 1)
             /\ UNCHANGED <<activeScan, pc, ret>>
        ELSE /\ progress' = IF live THEN p3 ELSE p1
             /\ emitted' = IF live
                           THEN [emitted EXCEPT ![s] = Append(@, Snapshot(p3, activeScan))]
                           ELSE emitted
             /\ activeScan' = 0
             /\ pc' = [pc EXCEPT ![s] = "returned"]
             /\ ret' = [ret EXCEPT ![s] = [kind |-> "result", obj |-> 0,
                                           results |-> rs, findings |-> all]]
             /\ run' = rn
             /\ UNCHANGED <<idx, fref, heap>>
     /\ UNCHANGED <<auxVars, impl, nscans, status, currentScan, scanObj, scanHistory, mode,
                    added, cancelled>>

\* the awaited scanner.scan() returns because the detector body settled
Resume_P12(s, outcome) ==
  /\ impl = "P12"
  /\ Awaiting(s)
  /\ Continue_P12(s, outcome)
  /\ UNCHANGED timedOut

\* the awaited scanner.scan() returns because the timer won the race; the
\* body is not aborted and goes on in the background
Timeout_P12(s) ==
  /\ impl = "P12"
  /\ TimerMayFire(s)
  /\ timedOut' = [timedOut EXCEPT ![s][idx[s]] = TRUE]
  /\ Continue_P12(s, "timeout")

\* cancelScan(): if (this.activeScan) this.activeScan.progress.status = 'cancelled'
CancelScan_P12 ==
  /\ impl = "P12"
  /\ progress' = IF activeScan # 0
                 THEN [progress EXCEPT ![activeScan].status = "cancelled"]
                 ELSE progress
  /\ NoteCancel
  /\ UNCHANGED <<auxVars, impl, nscans, status, currentScan, scanObj, activeScan, emitted,
                 scanHistory, callVars, detVars>>

\* ----------------------------------- F5: unnamed/part_005 ScannerEngine
\* runFullScan()/runQuickScan(): no guard; this.activeScan = scanId, then the
\* first scanner.execute(context)
StartScan_F5(m) ==
  /\ impl = "F5"
  /\ nscans < MaxScans
  /\ LET s == nscans + 1 IN
     /\ nscans' = s
     /\ activeScan' = s
     /\ mode' = [mode EXCEPT ![s] = m]
     /\ pc' = [pc EXCEPT ![s] = "await"]
     /\ idx' = [idx EXCEPT ![s] = 1]
     /\ run' = StartedRun(run, s, 1)
     /\ fref' = StartedFref(fref, s, 1)
     /\ heap' = StartedHeap(heap, s, 1)
  /\ UNCHANGED <<auxVars, impl, status, currentScan, scanObj, progress, emitted, scanHistory,
                 results, allFindings, ret, timedOut, added, cancelled>>

RunFullScan_F5 == StartScan_F5("full")

RunQuickScan_F5 == StartScan_F5("quick")

\* the rest of runFullScan()/runQuickScan() after `await scanner.execute(context)`
\* returned r: results.push, the next scanner (runFullScan first checks
\* this.activeScan !== scanId), or createSummary and the return
Continue_F5(s, outcome) ==
  LET d == idx[s]
      r == BaseResult(s, d, outcome)
      rn == IF outcome = "timeout" THEN run ELSE [run EXCEPT ![s][d] = outcome]
      rs == Append(results[s], r)
      more == /\ d < LastOf(mode[s])
              /\ (mode[s] = "full" => activeScan = s)
      all == Concat(heap, rs)
  IN /\ results' = [results EXCEPT ![s] = rs]
     /\ IF more
        THEN /\ idx' = [idx EXCEPT ![s] = d + 1]
             /\ run' = StartedRun(rn, s, d + 1)
             /\ fref' = StartedFref(fref, s, d + 1)
             /\ heap' = StartedHeap(heap, s, d + 1)
             /\ UNCHANGED <<activeScan, scanHistory, pc, allFindings, ret>>
        ELSE /\ allFindings' = [allFindings EXCEPT ![s] = all]
             /\ scanHistory' = Append(scanHistory, s)
             /\ activeScan' = 0
             /\ pc' = [pc EXCEPT ![s] = "returned"]
             /\ ret' = [ret EXCEPT ![s] = [kind |-> "result", obj |-> 0,
                                           results |-> rs, findings |-> all]]
             /\ run' = rn
             /\ UNCHANGED <<idx, fref, heap>>
     /\ UNCHANGED <<auxVars, impl, nscans, status, currentScan, scanObj, progress, emitted,
                    mode, added, cancelled>>

Resume_F5(s, outcome) ==
  /\ impl = "F5"
  /\ Awaiting(s)
  /\ Continue_F5(s, outcome)
  /\ UNCHANGED timedOut

Timeout_F5(s) ==
  /\ impl = "F5"
  /\ TimerMayFire(s)
  /\ timedOut' = [timedOut EXCEPT ![s][idx[s]] = TRUE]
  /\ Continue_F5(s, "timeout")

\* cancelScan(): if (this.activeScan) this.activeScan = null
CancelScan_F5 ==
  /\ impl = "F5"
  /\ activeScan' = 0
  /\ NoteCancel
  /\ UNCHANGED <<auxVars, impl, nscans, status, currentScan, scanObj, progress, emitted,
                 scanHistory, callVars, detVars>>

\* ------------------------------------------------------------------- Next
Outcomes == {"resolved", "rejected"}   \* how a detector body's promise settles

Next ==
  \/ Scan_S5
  \/ \E s \in Scans, o \in Outcomes : Resume_S5(s, o)
  \/ CancelScan_S5
  \/ Scan_RA
  \/ \E s \in Scans, o \in Outcomes : Resume_RA(s, o)
  \/ Stop_RA
  \/ Scan_P12
  \/ \E s \in Scans, o \in Outcomes : Resume_P12(s, o)
  \/ \E s \in Scans : Timeout_P12(s)
  \/ CancelScan_P12
  \/ RunFullScan_F5
  \/ RunQuickScan_F5
  \/ \E s \in Scans, o \in Outcomes : Resume_F5(s, o)
  \/ \E s \in Scans : Timeout_F5(s)
  \/ CancelScan_F5
  \/ \E s \in Scans, d \in Detectors : DetectorAdd(s, d)
  \/ \E s \in Scans, d \in Detectors : DetectorSettleLate(s, d)

Spec == Init /\ [][Next]_vars

\* ------------------------------------ the RA engine alone, with its scheduling
\* this.registerScanner(new SupabaseRLSScanner()) comes last: the one detector
\* whose body awaits fetch(), a promise nothing bounds
NetworkDetector == NumDetectors

InitRA == Init /\ impl = "RA"

NextRA ==
  \/ Scan_RA
  \/ \E s \in Scans, o \in Outcomes : Resume_RA(s, o)
  \/ Stop_RA
  \/ \E s \in Scans, d \in Detectors : DetectorAdd(s, d)

\* the body of a detector that only reads the ScanContext runs to its end and
\* settles, and the event loop then runs the continuation of scan(); the body
\* that awaits fetch() settles only if the remote end answers or fails
FairSpecRA ==
  /\ InitRA
  /\ [][NextRA]_vars
  /\ \A s \in Scans :
       WF_vars(idx[s] # NetworkDetector /\ \E o \in Outcomes : Resume_RA(s, o))

\* ------------------------------------------------- the background service
\* "SW"  src/background/service-worker.ts (the set `scanning`, its own runScan)
\* "W5"  snapshots/005 service-worker.ts (tabStates, scannerEngine of snapshots/005)
\* "P14" unnamed/part_014 BackgroundService (tabStates, scannerEngine of part_012)
\* "SO"  src/background/scanner-orchestrator.ts ScannerOrchestrator (activeScanTabId)
\* One action is one piece of a handler between two awaits.
ScanFrame == UNCHANGED <<scanVars, libVars, matchVars>>

\* the guard and the start of handleStartScan once `state` is object o:
\* if (state.isScanning) return error; state.isScanning = true; await the DOM data
Guarded(h, t, o) ==
  /\ htab' = [htab EXCEPT ![h] = t]
  /\ hobj' = [hobj EXCEPT ![h] = o]
  /\ IF isScanning[o]
     THEN /\ hpc' = [hpc EXCEPT ![h] = "refused"]
          /\ UNCHANGED isScanning
     ELSE /\ hpc' = [hpc EXCEPT ![h] = "dom"]
          /\ isScanning' = [isScanning EXCEPT ![o] = TRUE]

\* W5, P14: handleStartScan(tabId) up to its first await (START_SCAN, or the
\* auto scan of tabs.onUpdated)
HandleStartScan(t) ==
  /\ bg \in {"W5", "P14"}
  /\ nhandlers < MaxHandlers
  /\ t \notin closed
  /\ nhandlers' = nhandlers + 1
  /\ LET h == nhandlers + 1 IN
     IF tabStates[t] = 0
     THEN \* await chrome.tabs.query(...)
          /\ hpc' = [hpc EXCEPT ![h] = "query"]
          /\ htab' = [htab EXCEPT ![h] = t]
          /\ UNCHANGED <<hobj, isScanning>>
     ELSE Guarded(h, t, tabStates[t])
  /\ UNCHANGED <<activeScanTabId, bg, tabStates, nstates, scanning, closed, engStatus>>
  /\ hpage' = [hpage EXCEPT ![nhandlers + 1] = page[t]]
  /\ UNCHANGED <<page, tabResults, lastScan>>
  /\ ScanFrame

\* W5, P14: the tabs.query answered: state = {..., isScanning: false};
\* tabStates.set(tabId, state), then the guard
QueryAnswered(h) ==
  /\ bg \in {"W5", "P14"}
  /\ hpc[h] = "query"
  /\ nstates < MaxStates
  /\ LET o == nstates + 1 IN
     /\ nstates' = o
     /\ tabStates' = [tabStates EXCEPT ![htab[h]] = o]
     /\ Guarded(h, htab[h], o)
  /\ UNCHANGED <<activeScanTabId, bg, scanning, closed, engStatus, nhandlers>>
  /\ UNCHANGED pageVars
  /\ ScanFrame

\* SW: the START_SCAN handler after tabs.query returned the active tab t:
\* if (scanning.has(tab.id)) return error; scanning.add(tab.id); await runScan
StartScan_SW(t) ==
  /\ bg = "SW"
  /\ nhandlers < MaxHandlers
  /\ t \notin closed
  /\ nhandlers' = nhandlers + 1
  /\ LET h == nhandlers + 1 IN
     /\ htab' = [htab EXCEPT ![h] = t]
     /\ IF t \in scanning
        THEN /\ hpc' = [hpc EXCEPT ![h] = "refused"]
             /\ UNCHANGED scanning
        ELSE /\ hpc' = [hpc EXCEPT ![h] = "scan"]
             /\ scanning' = scanning \cup {t}
  /\ UNCHANGED <<activeScanTabId, bg, tabStates, isScanning, nstates, closed, engStatus, hobj>>
  /\ hpage' = [hpage EXCEPT ![nhandlers + 1] = page[t]]
  /\ UNCHANGED <<page, tabResults, lastScan>>
  /\ ScanFrame

\* W5, P14: the DOM data arrived (or failed): await scannerEngine.scan(...).
\* The snapshots/005 engine throws 'Scan in progress' while its status is
\* 'scanning', and the catch resets state.isScanning; part_012 has no guard.
DomAnswered(h) ==
  /\ bg \in {"W5", "P14"}
  /\ hpc[h] = "dom"
  /\ IF bg = "W5" /\ engStatus = "scanning"
     THEN /\ hpc' = [hpc EXCEPT ![h] = "failed"]
          /\ isScanning' = [isScanning EXCEPT ![hobj[h]] = FALSE]
          /\ UNCHANGED engStatus
     ELSE /\ hpc' = [hpc EXCEPT ![h] = "scan"]
          /\ engStatus' = IF bg = "W5" THEN "scanning" ELSE engStatus
          /\ UNCHANGED isScanning
  /\ UNCHANGED <<activeScanTabId, bg, tabStates, nstates, scanning, closed, nhandlers, htab, hobj>>
  /\ UNCHANGED pageVars
  /\ ScanFrame

\* the scan of handler h returned: state.isScanning = false (W5; P14 in its
\* finally), scanning.delete(tab.id) (SW, in its finally)
ScanReturned(h) ==
  /\ bg \in {"SW", "W5", "P14"}
  /\ hpc[h] = "scan"
  /\ hpc' = [hpc EXCEPT ![h] = "done"]
  /\ IF bg = "SW"
     THEN /\ scanning' = scanning \ {htab[h]}
          /\ UNCHANGED <<isScanning, engStatus>>
     ELSE /\ isScanning' = [isScanning EXCEPT ![hobj[h]] = FALSE]
          /\ engStatus' = IF bg = "W5" THEN "completed" ELSE engStatus
          /\ UNCHANGED scanning
  /\ UNCHANGED <<activeScanTabId, bg, tabStates, nstates, closed, nhandlers, htab, hobj>>
  \* results.set(tab.id, result) / state.lastScan = result /
  \* tabState.findings = findings, unless the scan threw
  /\ \E threw \in BOOLEAN :
       IF threw THEN UNCHANGED <<tabResults, lastScan>>
       ELSE IF bg = "SW"
            THEN /\ tabResults' = [tabResults EXCEPT ![htab[h]] = hpage[h]]
                 /\ UNCHANGED lastScan
            ELSE /\ lastScan' = [lastScan EXCEPT ![hobj[h]] = hpage[h]]
                 /\ UNCHANGED tabResults
  /\ UNCHANGED <<page, hpage>>
  /\ ScanFrame

\* STOP_SCAN for tab t.  W5: scannerEngine.cancelScan(), i.e. status = 'idle'.
\* P14: cancelScan() and tabStates.get(tabId).isScanning = false.
StopScan(t) ==
  /\ bg \in {"W5", "P14"}
  /\ \E h \in Handlers : hpc[h] \in {"dom", "scan"}
  /\ IF bg = "W5"
     THEN /\ engStatus' = "idle"
          /\ UNCHANGED isScanning
     ELSE /\ isScanning' = IF tabStates[t] # 0
                           THEN [isScanning EXCEPT ![tabStates[t]] = FALSE]
                           ELSE isScanning
          /\ UNCHANGED engStatus
  /\ UNCHANGED <<activeScanTabId, bg, tabStates, nstates, scanning, closed, nhandlers, hpc, htab, hobj>>
  /\ UNCHANGED pageVars
  /\ ScanFrame

\* tabs.onUpdated, status 'complete': tabStates.set(tabId, {..., isScanning: false})
TabUpdated(t) ==
  /\ bg \in {"W5", "P14"}
  /\ t \notin closed
  /\ nstates < MaxStates
  /\ nstates' = nstates + 1
  /\ tabStates' = [tabStates EXCEPT ![t] = nstates + 1]
  /\ UNCHANGED <<activeScanTabId, bg, isScanning, scanning, closed, engStatus, nhandlers, hpc, htab, hobj>>
  /\ UNCHANGED pageVars
  /\ ScanFrame

\* tabs.onRemoved: tabStates.delete(tabId); SW: scanning.delete(tabId)
TabRemoved(t) ==
  /\ t \notin closed
  /\ closed' = closed \cup {t}
  /\ tabStates' = [tabStates EXCEPT ![t] = 0]
  /\ scanning' = scanning \ {t}
  /\ UNCHANGED <<activeScanTabId, bg, isScanning, nstates, engStatus, nhandlers, hpc, htab, hobj>>
  /\ tabResults' = IF bg = "SW" THEN [tabResults EXCEPT ![t] = 0] ELSE tabResults
  /\ UNCHANGED <<page, lastScan, hpage>>
  /\ ScanFrame

\* SO: startScan(tabId) up to its first await: no guard;
\* this.activeScanTabId = tabId; await chrome.tabs.get(tabId)
StartScan_SO(t) ==
  /\ bg = "SO"
  /\ nhandlers < MaxHandlers
  /\ nhandlers' = nhandlers + 1
  /\ LET h == nhandlers + 1 IN
     /\ htab' = [htab EXCEPT ![h] = t]
     /\ hpc' = [hpc EXCEPT ![h] = "query"]
  /\ activeScanTabId' = t
  /\ UNCHANGED <<bg, tabStates, isScanning, nstates, scanning, closed, engStatus, hobj>>
  /\ hpage' = [hpage EXCEPT ![nhandlers + 1] = page[t]]
  /\ UNCHANGED <<page, tabResults, lastScan>>
  /\ ScanFrame

\* SO: chrome.tabs.get settled.  It rejects for a tab that was removed, and
\* new URL(url) throws for a tab without a URL (tab.url ?? ''): startScan
\* has no try block, so the exception leaves it.  Otherwise the context is
\* built and the engine's runFullScan/runQuickScan is awaited.
TabGot_SO(h, urlOk) ==
  /\ bg = "SO"
  /\ hpc[h] = "query"
  /\ hpc' = [hpc EXCEPT ![h] = IF htab[h] \in closed \/ ~urlOk THEN "failed" ELSE "scan"]
  /\ UNCHANGED <<activeScanTabId, bg, tabStates, isScanning, nstates, scanning, closed,
                 engStatus, nhandlers, htab, hobj>>
  /\ UNCHANGED pageVars
  /\ ScanFrame

\* SO: the engine returned the summary: scanResults.set(tabId, summary);
\* this.activeScanTabId = null; notifyScanComplete
ScanReturned_SO(h) ==
  /\ bg = "SO"
  /\ hpc[h] = "scan"
  /\ hpc' = [hpc EXCEPT ![h] = "done"]
  /\ activeScanTabId' = 0
  /\ UNCHANGED <<bg, tabStates, isScanning, nstates, scanning, closed, engStatus,
                 nhandlers, htab, hobj>>
  /\ tabResults' = [tabResults EXCEPT ![htab[h]] = hpage[h]]
  /\ UNCHANGED <<page, lastScan, hpage>>
  /\ ScanFrame

\* SO: stopScan(): if (this.activeScanTabId !== null) { cancelScan();
\* this.activeScanTabId = null }
StopScan_SO ==
  /\ bg = "SO"
  /\ activeScanTabId # 0
  /\ activeScanTabId' = 0
  /\ UNCHANGED <<bg, tabStates, isScanning, nstates, scanning, closed, engStatus,
                 nhandlers, hpc, htab, hobj>>
  /\ UNCHANGED pageVars
  /\ ScanFrame

\* tabs.onUpdated, status 'loading': the tab starts loading its next page.
\* SW: results.delete(tabId); the other scripts do nothing on 'loading'
TabLoading(t) ==
  /\ t \notin closed
  /\ page[t] < MaxPages
  /\ page' = [page EXCEPT ![t] = @ + 1]
  /\ tabResults' = IF bg = "SW" THEN [tabResults EXCEPT ![t] = 0] ELSE tabResults
  /\ UNCHANGED <<activeScanTabId, bg, tabStates, isScanning, nstates, scanning, closed,
                 engStatus, nhandlers, hpc, htab, hobj, lastScan, hpage>>
  /\ ScanFrame

InitBG ==
  /\ bg \in Backgrounds \cup Orchestrators
  /\ TabInit
  /\ impl = "none"
  /\ ScanIdle
  /\ LibIdle
  /\ MatchIdle

NextBG ==
  \/ \E t \in Tabs : HandleStartScan(t)
  \/ \E h \in Handlers : QueryAnswered(h)
  \/ \E t \in Tabs : StartScan_SW(t)
  \/ \E h \in Handlers : DomAnswered(h)
  \/ \E h \in Handlers : ScanReturned(h)
  \/ \E t \in Tabs : StopScan(t)
  \/ \E t \in Tabs : TabUpdated(t)
  \/ \E t \in Tabs : TabRemoved(t)
  \/ \E t \in Tabs : StartScan_SO(t)
  \/ \E h \in Handlers, urlOk \in BOOLEAN : TabGot_SO(h, urlOk)
  \/ \E h \in Handlers : ScanReturned_SO(h)
  \/ StopScan_SO
  \/ \E t \in Tabs : TabLoading(t)

SpecBG == InitBG /\ [][NextBG]_vars

\* ------------------------------------------------------ helper functions
\* Strings are sequences of characters; '*' may occur in a value as well.
Chars == {"a", "*"}
Strs(n) == [1..n -> Chars]
Strings == UNION {Strs(n) : n \in 0..MaxLen}

Min(a, b) == IF a < b THEN a ELSE b

\* '*'.repeat(n)
Stars(n) == [i \in 1..n |-> "*"]

\* s.substring(0, n) / s.slice(0, n), for 0 <= n
Prefix(s, n) == SubSeq(s, 1, Min(n, Len(s)))

\* s.substring(s.length - n) / s.slice(-n), for 0 < n
Suffix(s, n) == IF n >= Len(s) THEN s ELSE SubSeq(s, Len(s) - n + 1, Len(s))

\* (not the code) a masking that returns the value as it is
maskNothing(secret, visibleChars) == secret

\* utils/crypto maskSecret
maskSecret(secret, visibleChars) ==
  IF Len(secret) <= visibleChars * 2 THEN Stars(Len(secret))
  ELSE Prefix(secret, visibleChars)
         \o Stars(Min(Len(secret) - visibleChars * 2, MaxStars))
         \o Suffix(secret, visibleChars)

\* service-worker mask
mask(s) ==
  IF s = <<>> \/ Len(s) < MaskMinLen THEN <<"*", "*", "*", "*">>
  ELSE Prefix(s, 4) \o <<".", ".", ".">> \o Suffix(s, 4)

\* severity-calculator maskValue
maskValue(value, visibleChars) ==
  IF Len(value) <= visibleChars * 2 THEN Stars(Len(value))
  ELSE Prefix(value, visibleChars)
         \o Stars(Min(Len(value) - visibleChars * 2, MaxStars))
         \o Suffix(value, visibleChars)

MaskFns == {"maskSecret", "mask", "maskValue"}

\* the masking function named f, called as the detectors call it
Masked(f, s) ==
  CASE f = "maskSecret" -> maskSecret(s, VisibleChars)
    [] f = "mask" -> mask(s)
    [] OTHER -> maskValue(s, VisibleChars)

\* the values that agree with s in length and in the first and last 4 characters
SameEnds(s) ==
  {u \in Strs(Len(s)) : \A i \in 1..Len(s) : (i <= 4 \/ i > Len(s) - 4) => u[i] = s[i]}

\* the masking function f is called on s and, for comparison, on u
MaskCall(f, s, u) ==
  /\ callFn = "none"
  /\ callFn' = f
  /\ callArg' = [secret |-> s, other |-> u]
  /\ callOut' = [masked |-> Masked(f, s), maskedOther |-> Masked(f, u)]
  /\ UNCHANGED <<scanVars, tabVars, matchVars>>

\* ---------------------------------------------------- finding constructors
Absent == <<"absent">>      \* a field the finding does not have

\* what a detector stores in the finding it builds from the raw value v
Finding(k, v) ==
  CASE k \in {"sensitiveVuln", "jwtVuln"} ->
         \* LocalStorageScanner: .setEvidence(maskSecret(value))
         [evidence |-> maskSecret(v, VisibleChars), maskedEvidence |-> Absent]
    [] k \in {"piiVuln", "ccVuln"} ->
         \* LocalStorageScanner: .setEvidence(value)
         [evidence |-> v, maskedEvidence |-> Absent]
    [] k = "scanContent" ->
         \* part_010 APIKeyScanner: evidence: secret, maskedEvidence: maskSecret(secret)
         [evidence |-> v, maskedEvidence |-> maskSecret(v, VisibleChars)]
    [] OTHER ->
         \* service-worker scanText / scanStorage: evidence: mask(secret)
         [evidence |-> mask(v), maskedEvidence |-> Absent]

FindingKinds == {"sensitiveVuln", "jwtVuln", "piiVuln", "ccVuln", "scanContent", "scanText"}

\* a detector builds a finding of kind k from the raw value v
BuildFinding(k, v) ==
  /\ callFn = "none"
  /\ callFn' = k
  /\ callArg' = [value |-> v]
  /\ callOut' = Finding(k, v)
  /\ UNCHANGED <<scanVars, tabVars, matchVars>>

\* ------------------------------------------------------ grade and risk score
\* core/severity getGrade
getGrade(score) ==
  IF score <= 10 THEN "A"
  ELSE IF score <= 30 THEN "B"
  ELSE IF score <= 50 THEN "C"
  ELSE IF score <= 70 THEN "D"
  ELSE "F"

\* service-worker runScan: the grade it derives from its score
runScanGrade(score) ==
  IF score <= 10 THEN "A"
  ELSE IF score <= 25 THEN "B"
  ELSE IF score <= 50 THEN "C"
  ELSE IF score <= 75 THEN "D"
  ELSE "F"

\* request-analyzer ScannerEngine.getGrade
engineGetGrade(riskScore) ==
  IF riskScore = 0 THEN "A"
  ELSE IF riskScore < 20 THEN "B"
  ELSE IF riskScore < 40 THEN "C"
  ELSE IF riskScore < 60 THEN "D"
  ELSE "F"

GradeFns == {"getGrade", "runScanGrade", "engineGetGrade"}

GradeOf(f, score) ==
  CASE f = "getGrade" -> getGrade(score)
    [] f = "runScanGrade" -> runScanGrade(score)
    [] OTHER -> engineGetGrade(score)

\* a grade function is called on a score
GradeCall(f, score) ==
  /\ callFn = "none"
  /\ callFn' = f
  /\ callArg' = [score |-> score]
  /\ callOut' = [grade |-> GradeOf(f, score)]
  /\ UNCHANGED <<scanVars, tabVars, matchVars>>

Severities == {"critical", "high", "medium", "low", "info"}
Confidences == {0, 5, 10}       \* confidence 0, 0.5, 1 in tenths

\* a finding as the score functions see it: <<severity, confidence in tenths>>
ScoredFindings == Severities \X Confidences
FindingLists == UNION {[1..n -> ScoredFindings] : n \in 0..MaxList}

\* core/severity severityToScore, in tenths
severityToScore10(severity) ==
  CASE severity = "critical" -> 95
    [] severity = "high" -> 80
    [] severity = "medium" -> 55
    [] severity = "low" -> 25
    [] OTHER -> 5

\* utils/helpers severityToScore, in tenths
helperSeverityToScore10(severity) ==
  CASE severity = "critical" -> 95
    [] severity = "high" -> 75
    [] severity = "medium" -> 50
    [] severity = "low" -> 25
    [] OTHER -> 10

\* Math.round(p / q) for p >= 0, q > 0
RoundDiv(p, q) == (2 * p + q) \div (2 * q)

RECURSIVE WeightedTotal(_)
\* total += severityToScore(v.severity) * v.confidence, in hundredths
WeightedTotal(vs) ==
  IF vs = <<>> THEN 0
  ELSE severityToScore10(Head(vs)[1]) * Head(vs)[2] + WeightedTotal(Tail(vs))

\* core/severity calculateRiskScore
calculateRiskScore(vulnerabilities) ==
  IF Len(vulnerabilities) = 0 THEN 0
  ELSE Min(100, RoundDiv(WeightedTotal(vulnerabilities), Len(vulnerabilities) * 10))

RECURSIVE ScoreSum(_)
\* allVulns.reduce((acc, v) => acc + severityToScore(v.severity) * 10, 0)
ScoreSum(vs) ==
  IF vs = <<>> THEN 0 ELSE helperSeverityToScore10(Head(vs)[1]) + ScoreSum(Tail(vs))

\* request-analyzer ScannerEngine.scan: summary.riskScore
engineRiskScore(allVulns) == Min(100, ScoreSum(allVulns))

RiskFns == {"calculateRiskScore", "engineRiskScore"}

\* a risk score function is called on a list of findings
RiskCall(f, vs) ==
  /\ callFn = "none"
  \* the request-analyzer findings carry no confidence: it counts as 1
  /\ f = "engineRiskScore" => \A i \in 1..Len(vs) : vs[i][2] = 10
  /\ callFn' = f
  /\ callArg' = [vulnerabilities |-> vs]
  /\ callOut' = [riskScore |-> IF f = "calculateRiskScore" THEN calculateRiskScore(vs)
                                ELSE engineRiskScore(vs)]
  /\ UNCHANGED <<scanVars, tabVars, matchVars>>

\* ------------------------------------------- the findings of a ScanResult
\* what identifies a finding: its type, its masked evidence, its location
FindingKey(type, maskedEvidence, location) ==
  [type |-> type, maskedEvidence |-> maskedEvidence, location |-> location]

\* the findings a detector can return: the same secret found in a script and
\* in the page's html (part_010 APIKeyScanner.scanContent, one finding per match)
DetectorFindings ==
  {FindingKey("api_key_exposed", maskSecret([i \in 1..MaskMinLen |-> "a"], VisibleChars), l) :
     l \in {"script", "html"}}

Lists(S, n) == UNION {[1..k -> S] : k \in 0..n}

\* the results of the detectors of one scan, in order
DetectorResults == [1..NumDetectors -> Lists(DetectorFindings, MaxDup)]

RECURSIVE Flatten(_)
\* results.forEach(r => all.push(...r.vulnerabilities))
Flatten(rs) == IF rs = <<>> THEN <<>> ELSE Head(rs) \o Flatten(Tail(rs))

\* snapshot 005 ScannerEngine.scan: allVulns
allVulns(rs) == Flatten(rs)

\* part_012 ScannerEngine.scan: allFindings
allFindings_P12(rs) == Flatten(rs)

\* two secrets one pattern matches, alike in their first 4 and last 4 characters
PatternSecrets == SameEnds([i \in 1..(2 * VisibleChars + 1) |-> "a"])

\* a script of the page: the matches of the pattern in its content, in order,
\* and script.src || 'inline-script'
Scripts == [matches : Lists(PatternSecrets, MaxDup), src : {"inline-script", "app.js"}]

RECURSIVE findSecretsFrom(_, _, _)
\* service-worker findSecrets: one finding per match not yet in `found`
findSecretsFrom(matches, source, found) ==
  IF matches = <<>> THEN <<>>
  ELSE IF Head(matches) \in found THEN findSecretsFrom(Tail(matches), source, found)
  ELSE <<FindingKey("Exposed AWS Key", mask(Head(matches)), source)>>
         \o findSecretsFrom(Tail(matches), source, found \cup {Head(matches)})

findSecrets(matches, source) == findSecretsFrom(matches, source, {})

RECURSIVE runScanVulns(_)
\* service-worker runScan: vulns.push(...findSecrets(script.content, script.src
\* || 'inline-script')) for every script; storage values, cookies and forms are
\* appended to vulns by the same push
runScanVulns(scripts) ==
  IF scripts = <<>> THEN <<>>
  ELSE findSecrets(Head(scripts).matches, Head(scripts).src) \o runScanVulns(Tail(scripts))

MergeFns == {"allVulns", "allFindings", "runScan"}

\* an engine puts the detectors' findings into the findings of its ScanResult
MergeCall(f, rs) ==
  /\ callFn = "none"
  /\ f \in {"allVulns", "allFindings"}
  /\ callFn' = f
  /\ callArg' = [detectorResults |-> rs]
  /\ callOut' = [vulnerabilities |-> IF f = "allVulns" THEN allVulns(rs)
                                      ELSE allFindings_P12(rs)]
  /\ UNCHANGED <<scanVars, tabVars, matchVars>>

\* what runScan gets from the content script: null when the script cannot be
\* injected or reached, does not answer within 3 s, or the request throws
NoDom == [received |-> FALSE, scripts |-> <<>>]
DomData == {NoDom} \cup {[received |-> TRUE, scripts |-> ss] : ss \in Lists(Scripts, MaxDup)}

\* service-worker runScan: the ScanResult (the pattern's severity is critical)
runScan(domData) ==
  LET vulns == IF domData.received THEN runScanVulns(domData.scripts) ELSE <<>>
      score == Len(vulns) * 25
  IN [vulnerabilities |-> vulns,
      summary |-> [total |-> Len(vulns), grade |-> runScanGrade(score)]]

\* START_SCAN: the badge text it sets and the response it sends for `result`
startScanReply(result) ==
  [success |-> TRUE, result |-> result,
   badge |-> IF result.summary.total > 0 THEN "count" ELSE "check mark"]

\* START_SCAN runs runScan on what the content script answered and replies
RunScanCall(domData) ==
  /\ callFn = "none"
  /\ callFn' = "runScan"
  /\ callArg' = [domData |-> domData]
  /\ callOut' = [vulnerabilities |-> runScan(domData).vulnerabilities,
                 reply |-> startScanReply(runScan(domData))]
  /\ UNCHANGED <<scanVars, tabVars, matchVars>>

InitLib ==
  /\ LibIdle
  /\ impl = "none"
  /\ ScanIdle
  /\ BGIdle
  /\ MatchIdle

\* ------------------------------------------- matches across locations
\* two tokens that every token pattern matches
Tokens == {"t1", "t2"}

\* the contents a scan looks at, in order: per location, the pattern's
\* matches in text order
Contents == Lists(Lists(Tokens, MaxDup), MaxDup)

MatchFinding(pattern, secret, loc) == [pattern |-> pattern, secret |-> secret, location |-> loc]

RECURSIVE ExecLoop(_, _, _, _, _)
\* while ((m = p.pattern.exec(content)) !== null): with useSeen, a match whose
\* raw value is in `seen` is skipped and every other one is added to it
ExecLoop(pattern, ms, loc, seen, useSeen) ==
  IF ms = <<>> THEN [out |-> <<>>, seen |-> seen]
  ELSE IF useSeen /\ Head(ms) \in seen THEN ExecLoop(pattern, Tail(ms), loc, seen, useSeen)
  ELSE LET r == ExecLoop(pattern, Tail(ms), loc, seen \cup {Head(ms)}, useSeen)
       IN [out |-> <<MatchFinding(pattern, Head(ms), loc)>> \o r.out, seen |-> r.seen]

RECURSIVE PatternLoop(_, _, _, _, _)
\* for (const p of SECRET_PATTERNS) { p.pattern.lastIndex = 0; ... }
PatternLoop(ps, ms, loc, seen, useSeen) ==
  IF ps = <<>> THEN [out |-> <<>>, seen |-> seen]
  ELSE LET a == ExecLoop(Head(ps), ms, loc, seen, useSeen)
           b == PatternLoop(Tail(ps), ms, loc, a.seen, useSeen)
       IN [out |-> a.out \o b.out, seen |-> b.seen]

RECURSIVE LocationLoop(_, _, _, _, _, _)
\* one check per location; perCall: the set of seen values starts empty in each
LocationLoop(ps, contents, i, seen, useSeen, perCall) ==
  IF i > Len(contents) THEN <<>>
  ELSE LET a == PatternLoop(ps, contents[i], i, IF perCall THEN {} ELSE seen, useSeen)
       IN a.out \o LocationLoop(ps, contents, i + 1, a.seen, useSeen, perCall)

\* the patterns database: 'Supabase Service Role Key' and 'JSON Web Token'
\* have the same regular expression
ScannerPatterns == <<"Supabase Service Role Key", "JSON Web Token">>
\* service-worker PATTERNS and part_010 SECRET_PATTERNS: one token pattern
WorkerPatterns == <<"JWT Token">>
ContentPatterns == <<"Supabase Service Role Key">>

\* api-key-scanner APIKeyScanner.scan: one `seen` set for the whole scan
apiKeyScan(contents) == LocationLoop(ScannerPatterns, contents, 1, {}, TRUE, FALSE)

\* service-worker runScan: findSecrets per location, each with its own `found`
findSecretsAll(contents) == LocationLoop(WorkerPatterns, contents, 1, {}, TRUE, TRUE)

\* part_010 APIKeyScanner.performScan: scanContent per location, nothing skipped
scanContentAll(contents) == LocationLoop(ContentPatterns, contents, 1, {}, FALSE, TRUE)

DedupFns == {"apiKeyScan", "findSecretsAll", "scanContentAll"}

PatternsOf(f) ==
  CASE f = "apiKeyScan" -> ScannerPatterns
    [] f = "findSecretsAll" -> WorkerPatterns
    [] OTHER -> ContentPatterns

\* a secrets detector scans the contents of one page
DedupCall(f, contents) ==
  /\ callFn = "none"
  /\ callFn' = f
  /\ callArg' = [contents |-> contents]
  /\ callOut' = [matches |-> CASE f = "apiKeyScan" -> apiKeyScan(contents)
                              [] f = "findSecretsAll" -> findSecretsAll(contents)
                              [] OTHER -> scanContentAll(contents)]
  /\ UNCHANGED <<scanVars, tabVars, matchVars>>

\* ------------------------------------------------- the context of a match
\* the terms a pattern can declare, and the words a context window can hold
IncludeTerms == {"aws", "secret"}
ExcludeTerms == {"example"}
Words == {"AWS", "secret", "Example"}

\* String.prototype.toLowerCase on these words
toLowerCase(w) ==
  CASE w = "AWS" -> "aws"
    [] w = "Example" -> "example"
    [] OTHER -> w

\* lowerContext.includes(term.toLowerCase()), lowerContext = context.toLowerCase()
ContextIncludes(context, term) == \E w \in context : toLowerCase(w) = toLowerCase(term)

\* pattern.context: mustInclude / mustExclude are undefined or a list of terms
Undeclared == [declared |-> FALSE, terms |-> {}]
Declared(S) == {[declared |-> TRUE, terms |-> ts] : ts \in (SUBSET S) \ {{}}}
PatternContexts ==
  [mustInclude : {Undeclared} \cup Declared(IncludeTerms),
   mustExclude : {Undeclared} \cup Declared(ExcludeTerms)]

\* snapshot 002 APIKeyScanner.matchesContext
matchesContext(pattern, context) ==
  LET hasRequired == \E term \in pattern.mustInclude.terms : ContextIncludes(context, term)
      hasExcluded == \E term \in pattern.mustExclude.terms : ContextIncludes(context, term)
  IN IF pattern.mustInclude.declared /\ ~hasRequired THEN FALSE
     ELSE IF pattern.mustExclude.declared /\ hasExcluded THEN FALSE
     ELSE TRUE

\* api-key-scanner APIKeyScanner.scan, check: a match that is neither seen nor
\* a placeholder is pushed; p.context is not read
checkAccepts(pattern, context) == TRUE

ContextFns == {"matchesContext", "check"}

\* a detector decides on a match of `pattern` found within `context`
ContextCall(f, pattern, context) ==
  /\ callFn = "none"
  /\ callFn' = f
  /\ callArg' = [pattern |-> pattern, context |-> context]
  /\ callOut' = [accepted |-> IF f = "matchesContext" THEN matchesContext(pattern, context)
                               ELSE checkAccepts(pattern, context)]
  /\ UNCHANGED <<scanVars, tabVars, matchVars>>

\* ------------------------------------------------- the per-finding score
Environments == {"production", "staging", "development", "unknown"}

\* environment-detector getEnvironmentRiskMultiplier, in tenths
getEnvironmentRiskMultiplier(env) ==
  IF env = "production" THEN 15
  ELSE IF env = "staging" THEN 12
  ELSE IF env = "development" THEN 8
  ELSE 10

\* severity-calculator BASE_SEVERITY, in tenths (three of its types)
FindingTypes == {"secret_exposure", "insecure_header", "insecure_cookie"}
BASE_SEVERITY(type) ==
  CASE type = "secret_exposure" -> 90
    [] type = "insecure_header" -> 50
    [] OTHER -> 55

\* severity-calculator calculateSeverityScore, in hundredths
calculateSeverityScore(type, environment, dataExposed, publiclyAccessible) ==
  LET s1 == BASE_SEVERITY(type) * getEnvironmentRiskMultiplier(environment)
      s2 == IF dataExposed THEN s1 + 100 ELSE s1
      s3 == IF publiclyAccessible THEN s2 + 50 ELSE s2
  IN Min(1000, IF s3 < 0 THEN 0 ELSE s3)

\* the score of one finding is computed
SeverityScoreCall(type, env, dataExposed, publiclyAccessible) ==
  /\ callFn = "none"
  /\ callFn' = "calculateSeverityScore"
  /\ callArg' = [type |-> type, environment |-> env, dataExposed |-> dataExposed,
                 publiclyAccessible |-> publiclyAccessible]
  /\ callOut' = [multiplier |-> getEnvironmentRiskMultiplier(env),
                 score |-> calculateSeverityScore(type, env, dataExposed, publiclyAccessible)]
  /\ UNCHANGED <<scanVars, tabVars, matchVars>>

\* ------------------------------------------------------ entropy analyzers
\* A candidate is what the analyzers read off a matched string: its encoding
\* type (detectStringType), its length, its Shannon entropy in hundredths of
\* a bit (calculateEntropy), whether a placeholder indicator, a UUID or a
\* library prefix is present (isLikelyFalsePositive), and whether a secret
\* keyword stands in the surrounding context.
StringTypes == {"hex", "base64", "alphanumeric", "mixed", "unknown"}
CandidateLengths == {20, 64, 300, 600}
EntropyValues == {300, 400, 432, 446, 450, 500, 501, 550, 551, 600}

\* the entropy of a string is at most log2 of its alphabet and of its length
MaxEntropy(type, length) ==
  LET byAlphabet == IF type = "hex" THEN 446 ELSE 600
      byLength   == IF length = 20 THEN 432 ELSE 600
  IN IF byAlphabet < byLength THEN byAlphabet ELSE byLength

Candidates ==
  {c \in [type : StringTypes, length : CandidateLengths, entropy : EntropyValues,
          indicator : BOOLEAN, keyword : BOOLEAN] :
     c.entropy <= MaxEntropy(c.type, c.length)}

ENTROPY_THRESHOLDS ==
  [t \in StringTypes |->
     CASE t = "hex" -> 300
       [] t = "base64" -> 400
       [] t = "alphanumeric" -> 450
       [] t = "mixed" -> 400
       [] OTHER -> 450]

MIN_LENGTH == 16
MAX_LENGTH == 256

\* analyzeEntropy(str).isPotentialSecret
analyzeEntropy(c) ==
  /\ c.length >= MIN_LENGTH
  /\ c.length <= MAX_LENGTH
  /\ c.entropy >= ENTROPY_THRESHOLDS[c.type]

\* isLikelyFalsePositive: a hexadecimal string of 32, 40 or 64 characters is
\* taken for a hash; the other tests are the candidate's indicator
isLikelyFalsePositive(c) ==
  \/ c.type = "hex" /\ c.length \in {32, 40, 64}
  \/ c.indicator

Clamp(lo, hi, x) == IF x < lo THEN lo ELSE IF x > hi THEN hi ELSE x

\* calculateConfidence, in hundredths.  The sums of the code that land on
\* 0.6 (0.5 + 0.1) compare >= 0.6 in double arithmetic as the integers do.
calculateConfidence(c) ==
  LET base     == 50
      byEnt    == IF c.entropy > 550 THEN 20 ELSE IF c.entropy > 500 THEN 10 ELSE 0
      byBase64 == IF c.type = "base64" THEN 10 ELSE 0
      byHex    == IF c.type = "hex" /\ c.length = 64 THEN 15 ELSE 0
      byFalse  == IF isLikelyFalsePositive(c) THEN 30 ELSE 0
      byKey    == IF c.keyword THEN 15 ELSE 0
  IN Clamp(0, 100, base + byEnt + byBase64 + byHex - byFalse + byKey)

ConfidenceThreshold == 60

\* APIKeyScanner.scanWithEntropy, one matched value: the findings it pushes
scanWithEntropy(c) ==
  IF analyzeEntropy(c) /\ calculateConfidence(c) >= ConfidenceThreshold
  THEN <<[type |-> "high_entropy_secret", severity |-> "medium"]>>
  ELSE <<>>

EntropyFloor == 450
HighEntropy == 550
MinCandidate == 20
MaxCandidate == 500

\* EntropyAnalyzer.scan, one matched candidate not seen before
EntropyAnalyzerScan(c) ==
  IF c.length < MinCandidate \/ c.length > MaxCandidate THEN <<>>
  ELSE IF c.entropy >= EntropyFloor
       THEN <<[type |-> "high_entropy_string",
               severity |-> IF c.entropy >= HighEntropy THEN "high" ELSE "medium"]>>
       ELSE <<>>

EntropyFns == {"scanWithEntropy", "EntropyAnalyzer.scan"}

\* the strings each analyzer's regular expression can hand over:
\* [A-Za-z0-9_-]{20,} has no character outside the "mixed" alphabet
CandidatesOf(f) ==
  IF f = "scanWithEntropy" THEN {c \in Candidates : c.type # "unknown"} ELSE Candidates

EntropyCall(f, c) ==
  /\ callFn = "none"
  /\ c \in CandidatesOf(f)
  /\ callFn' = f
  /\ callArg' = [candidate |-> c]
  /\ callOut' = [entropyFindings |-> IF f = "scanWithEntropy" THEN scanWithEntropy(c)
                                     ELSE EntropyAnalyzerScan(c)]
  /\ UNCHANGED <<scanVars, tabVars, matchVars>>

\* ------------------------------------------------------ token analyzers
\* A token is read as the code reads it: `shape` is the outcome of the
\* three-part test (isJWT / looksLikeJWT), `header` the outcome of decoding
\* and parsing the first part ("bad" when atob or JSON.parse throws, else the
\* alg it names), `payload` the outcome for the second part with the claims
\* the analyzers look at.
Algs == {"none", "HS256"}
Payloads ==
  {p \in [json : {"bad", "ok"}, exp : {"absent", "past", "future"},
          role : {"absent", "anon", "service_role"}, sensitive : BOOLEAN] :
     p.json = "bad" => (p.exp = "absent" /\ p.role = "absent" /\ ~p.sensitive)}
JwtTokens == [shape : BOOLEAN, header : {"bad"} \cup Algs, payload : Payloads]

isJWT(token) == token.shape

\* decodeJWT of utils/crypto: the payload alone; null when it does not parse
decodeJWT(token) ==
  IF token.payload.json = "ok" THEN [null |-> FALSE, payload |-> token.payload]
  ELSE [null |-> TRUE, payload |-> token.payload]

\* decodeJWT of utils/crypto-utils: header and payload; null when either throws
decodeJWTParts(token) ==
  IF token.header # "bad" /\ token.payload.json = "ok"
  THEN [null |-> FALSE, payload |-> token.payload]
  ELSE [null |-> TRUE, payload |-> token.payload]

isJWTExpired(token) ==
  LET d == decodeJWT(token) IN ~d.null /\ d.payload.exp = "past"

TokenFinding(type, severity) == [type |-> type, severity |-> severity]

\* JWTAnalyzer.scan, the local function check on one unseen token.  The
\* header is parsed inside try/catch; the expiry test comes after the catch.
JWTAnalyzerCheck(token) ==
  IF ~isJWT(token) THEN <<>>
  ELSE LET d == decodeJWT(token) IN
    IF d.null THEN <<>>
    ELSE (IF token.header = "none"
          THEN <<TokenFinding("jwt_none_alg", "critical")>> ELSE <<>>)
         \o (IF d.payload.exp = "absent"
             THEN <<TokenFinding("jwt_no_exp", "high")>> ELSE <<>>)

\* LocalStorageScanner.analyzeJWT, called by analyzeStorage on values that
\* look like a token
analyzeJWT(token) ==
  IF ~isJWT(token) THEN <<>>
  ELSE LET d == decodeJWT(token) IN
    IF d.null THEN <<>>
    ELSE (IF isJWTExpired(token)
          THEN <<TokenFinding("expired_jwt", "low")>> ELSE <<>>)
         \o (IF d.payload.sensitive
             THEN <<TokenFinding("sensitive_jwt_claim", "high")>> ELSE <<>>)
         \o (IF d.payload.role = "service_role"
             THEN <<TokenFinding("service_role_key_exposed", "critical")>> ELSE <<>>)

\* the severity APIKeyScanner.scanContent reports in development or on localhost
Downgrade(severity) ==
  IF severity = "critical" THEN "high" ELSE IF severity = "high" THEN "medium" ELSE "low"

\* APIKeyScanner.scanContent on one match of the 'Supabase Service Role Key'
\* pattern: placeholder test, validator, severity by environment
scanContentToken(token, environment, localhost, placeholder) ==
  IF ~isJWT(token) \/ placeholder THEN <<>>
  ELSE LET d == decodeJWTParts(token) IN
    IF d.null \/ d.payload.role # "service_role" THEN <<>>
    ELSE <<TokenFinding("api_key_exposed",
                        IF environment = "development" \/ localhost
                        THEN Downgrade("critical") ELSE "critical")>>

TokenFns == {"JWTAnalyzer.check", "analyzeJWT"}
RoleFns == {"analyzeJWT", "validator"}

\* none of the three lets an exception out: every atob and JSON.parse is
\* inside a try block, and the claims are read off a parsed object
TokenCall(f, token, environment, localhost, placeholder) ==
  /\ callFn = "none"
  /\ callFn' = f
  /\ callArg' = [token |-> token, environment |-> environment,
                 localhost |-> localhost, placeholder |-> placeholder]
  /\ callOut' = [tokenFindings |->
                   CASE f = "JWTAnalyzer.check" -> JWTAnalyzerCheck(token)
                     [] f = "analyzeJWT" -> analyzeJWT(token)
                     [] OTHER -> scanContentToken(token, environment, localhost, placeholder),
                 threw |-> FALSE]
  /\ UNCHANGED <<scanVars, tabVars, matchVars>>

\* each run makes one call: S while no call was made, nothing afterwards
Uncalled(S) == IF callFn = "none" THEN S ELSE {}

NextLib ==
  \/ \E f \in Uncalled(MaskFns), s \in Strings : \E u \in SameEnds(s) : MaskCall(f, s, u)
  \/ \E k \in Uncalled(FindingKinds), v \in Strings : BuildFinding(k, v)
  \/ \E f \in Uncalled(GradeFns), score \in 0..MaxScore : GradeCall(f, score)
  \/ \E f \in Uncalled(RiskFns), vs \in FindingLists : RiskCall(f, vs)
  \/ \E f \in Uncalled({"allVulns", "allFindings"}), rs \in DetectorResults : MergeCall(f, rs)
  \/ \E f \in Uncalled({"runScan"}), domData \in DomData : RunScanCall(domData)
  \/ \E f \in Uncalled(DedupFns), contents \in Contents : DedupCall(f, contents)
  \/ \E f \in Uncalled(ContextFns), pattern \in PatternContexts, context \in SUBSET Words :
       ContextCall(f, pattern, context)
  \/ \E f \in Uncalled({"calculateSeverityScore"}), type \in FindingTypes, env \in Environments,
          dataExposed \in BOOLEAN, publiclyAccessible \in BOOLEAN :
       SeverityScoreCall(type, env, dataExposed, publiclyAccessible)
  \/ \E f \in Uncalled(EntropyFns), c \in Candidates : EntropyCall(f, c)
  \/ \E f \in Uncalled(TokenFns \cup RoleFns), token \in JwtTokens, environment \in Environments,
          localhost \in BOOLEAN, placeholder \in BOOLEAN :
       TokenCall(f, token, environment, localhost, placeholder)

SpecLib == InitLib /\ [][NextLib]_vars

\* ------------------------------------------------------ the pattern matcher
\* SECRET_PATTERNS: module-level objects, each holding one RegExp with the g
\* flag.  Pattern q stands for a regular expression that matches the single
\* character q, in table order.
Patterns == <<"a", "*">>
PatternSet == {Patterns[i] : i \in 1..Len(Patterns)}
Texts == UNION {Strs(n) : n \in 0..MaxText}
Matchers == {"scanForSecrets", "check"}

\* the positions (0-based, as lastIndex counts) from `from` on where q matches
MatchesFrom(q, text, from) == {i \in 0..(Len(text) - 1) : i >= from /\ text[i + 1] = q}

LeastOf(S) == CHOOSE i \in S : \A j \in S : i <= j

\* RegExp.prototype.test of a global regex: the search starts at lastIndex;
\* a match leaves lastIndex behind it, a failure resets lastIndex to 0
TestFinds(q, text, li) == MatchesFrom(q, text, li[q]) # {}
TestLastIndex(q, text, li) ==
  IF TestFinds(q, text, li) THEN LeastOf(MatchesFrom(q, text, li[q])) + 1 ELSE 0

RECURSIVE ScanForSecretsFrom(_, _, _)
\* LocalStorageScanner.scanForSecrets from pattern number k on: the first
\* pattern whose test() succeeds gives the one finding (break); the result is
\* <<findings, lastIndex afterwards>>
ScanForSecretsFrom(k, text, li) ==
  IF k > Len(Patterns) THEN <<{}, li>>
  ELSE LET q == Patterns[k]
           li2 == [li EXCEPT ![q] = TestLastIndex(q, text, li)]
       IN IF TestFinds(q, text, li)
          THEN <<{<<q, "storageKey">>}, li2>>
          ELSE ScanForSecretsFrom(k + 1, text, li2)

\* APIKeyScanner check(): per pattern lastIndex = 0, then exec() until it
\* returns null (which leaves lastIndex 0); `seen` keeps one finding per
\* distinct matched string
Check(text, li) ==
  <<{<<q, "loc">> : q \in {x \in PatternSet : MatchesFrom(x, text, 0) # {}}},
    [q \in PatternSet |-> 0]>>

\* one more call of the matcher on the same text and the same pattern table
MatchCall ==
  /\ matcher \in Matchers
  /\ Len(mCalls) < MaxCalls
  /\ LET r == IF matcher = "scanForSecrets"
              THEN ScanForSecretsFrom(1, mText, lastIndex)
              ELSE Check(mText, lastIndex)
     IN /\ mCalls' = Append(mCalls, r[1])
        /\ lastIndex' = r[2]
  /\ UNCHANGED <<matcher, mText>>
  /\ UNCHANGED <<scanVars, tabVars, libVars>>

InitMatch ==
  /\ matcher \in Matchers
  /\ mText \in Texts
  /\ lastIndex = [q \in PatternSet |-> 0]
  /\ mCalls = <<>>
  /\ impl = "none"
  /\ ScanIdle
  /\ BGIdle
  /\ LibIdle

NextMatch == MatchCall

SpecMatch == InitMatch /\ [][NextMatch]_vars

\* ------------------------------------------------------------ the claims
InFlight(s) == pc[s] = "await"        \* call s is between its start and its return

\* the status a call ended with: the progress status (P12), the status field of
\* the ScanResult it returned (S5, RA); a ScanSummary (F5) has no status
FinalStatus(s) ==
  CASE impl = "P12" -> progress[s].status
    [] impl \in {"S5", "RA"} -> scanObj[ret[s].obj].status
    [] OTHER -> "none"

\* detector d failed in call s: its body threw, or it lost the race to the timer
Failed(s, d) == run[s][d] = "rejected" \/ timedOut[s][d]

\* C1: on one engine instance at most one scan call executes its detector
\* loop at any time.
C1_AtMostOneScanRunning == Cardinality({s \in Scans : InFlight(s)}) <= 1

\* C2: a scan call made while another call is in flight is rejected with
\* "scan in progress", starts no detector and changes no engine state.
C2_OverlappingScanRejected ==
  [][(nscans' = nscans + 1 /\ \E t \in Scans : InFlight(t))
       => /\ pc'[nscans + 1] = "rejected"
          /\ ret'[nscans + 1].kind = "Scan in progress"
          /\ UNCHANGED <<engineVars, emitted, detVars>>]_vars

\* C3: the status only moves idle -> running -> {completed, failed, cancelled}
\* ('scanning' is running, 'error' is failed), for the engine's status field
\* and for the status of a scan's progress object alike.  A new scan may start
\* from the final status the previous one left.
StatusMoves ==
  {<<"idle", "scanning">>, <<"scanning", "completed">>, <<"scanning", "error">>,
   <<"scanning", "cancelled">>, <<"completed", "scanning">>, <<"error", "scanning">>,
   <<"cancelled", "scanning">>, <<"none", "running">>, <<"running", "completed">>,
   <<"running", "failed">>, <<"running", "cancelled">>}

C3_StatusTransitions ==
  [][/\ status' # status => <<status, status'>> \in StatusMoves
     /\ \A s \in Scans : progress'[s].status # progress[s].status
          => <<progress[s].status, progress'[s].status>> \in StatusMoves]_vars

\* C4: once cancel was called while call s was in flight, no detector that
\* call s had not started yet is started by it.
C4_NoStartAfterCancel ==
  [][\A s \in Scans, d \in Detectors :
       (cancelled[s] /\ run[s][d] = "none") => run'[s][d] = "none"]_vars

\* C5: a call during which cancel was called ends with status cancelled.
C5_CancelledFinalStatus ==
  \A s \in Scans : (pc[s] = "returned" /\ cancelled[s]) => FinalStatus(s) = "cancelled"

\* C6: a detector that timed out contributes none of its findings to the
\* returned findings and is recorded with a timeout reason.
C6_TimeoutDiscardsFindings ==
  \A s \in Scans, d \in Detectors :
    (pc[s] = "returned" /\ timedOut[s][d])
      => /\ \A i \in 1..Len(ret[s].findings) :
              ~(ret[s].findings[i][1] = s /\ ret[s].findings[i][2] = d)
         /\ \E i \in 1..Len(ret[s].results) :
              /\ ret[s].results[i].det = d
              /\ ret[s].results[i].error \in {"Timeout", "Scan timeout"}

\* C7: every started scan call eventually returns: no detector, the one that
\* makes outbound network calls included, is awaited without a bound.
C7_EveryScanReturns == \A s \in Scans : (pc[s] = "await") ~> (pc[s] = "returned")

\* C8: a call in which a detector threw, and which nobody cancelled, still
\* returns a result and has run every detector of its plan.
C8_DetectorFailureDoesNotFailScan ==
  \A s \in Scans :
    (pc[s] \in {"returned", "rejected"} /\ ~cancelled[s]
       /\ \E d \in Detectors : run[s][d] = "rejected")
      => /\ ret[s].kind = "result"
         /\ \A d \in 1..LastOf(mode[s]) : run[s][d] # "none"

\* C9: every detector that failed in a returned call is represented in the
\* call's output by a result that carries an error marker.
C9_FailedDetectorHasErrorResult ==
  \A s \in Scans, d \in Detectors :
    (pc[s] = "returned" /\ Failed(s, d))
      => \E i \in 1..Len(ret[s].results) :
           ret[s].results[i].det = d /\ ret[s].results[i].error # "none"

\* C10 (as claimed): at any time at most one detector of a call is executing,
\* also after an earlier detector of the call has timed out.
C10_AtMostOneDetectorExecuting ==
  \A s \in Scans : Cardinality({d \in Detectors : Executing(s, d)}) <= 1

\* C10 (amended): at any time at most one detector of a call is executing and
\* awaited; the only other executing detectors of the call are those whose
\* timer fired, which go on in the background.
C10_AtMostOneDetectorAwaited ==
  \A s \in Scans :
    Cardinality({d \in Detectors : Executing(s, d) /\ ~timedOut[s][d]}) <= 1

\* C10 witness: a timed-out detector of a call still executes while the call
\* awaits the next one.
C10_Witness ==
  \E s \in Scans, d \in Detectors, e \in Detectors :
    /\ d # e
    /\ Executing(s, d) /\ timedOut[s][d]
    /\ Executing(s, e) /\ ~timedOut[s][e] /\ InFlight(s) /\ idx[s] = e

\* the scan proper of handler h (scannerEngine.scan / runScan) is in flight
ScanInFlight(h) == hpc[h] = "scan"

\* C11: for every tab at most one scan is in flight at any time, whatever the
\* order of START_SCAN, STOP_SCAN, tab-updated and tab-removed events.
C11_OneScanPerTab ==
  bg \in Backgrounds => \A t \in Tabs : Cardinality({h \in Handlers : ScanInFlight(h) /\ htab[h] = t}) <= 1

\* the values the masking functions make of v
MaskedForms(v) == {Masked(f, v) : f \in MaskFns}

\* C12: every field of a finding that holds evidence holds a masked form of
\* the raw value the detector matched, never the raw value itself.
C12_EvidenceIsMasked ==
  callFn \in FindingKinds
    => /\ callOut.evidence \in MaskedForms(callArg.value)
       /\ callOut.maskedEvidence \in MaskedForms(callArg.value) \cup {Absent}

C14_MatcherDeterministic ==
  \A i \in 1..Len(mCalls), j \in 1..Len(mCalls) : mCalls[i] = mCalls[j]

\* C15: whenever it is read, a summary agrees with the findings it summarizes
\* as they are now: the total of the engine's current ScanResult (S5, RA) is
\* the number of its vulnerabilities, and the total of a returned ScanSummary
\* (F5) is the number of vulnerabilities in its results.
C15_SummaryMatchesFindings ==
  /\ \A s \in Scans : scanObj[s].total = Len(scanObj[s].vulnerabilities)
  /\ \A s \in Scans :
       (impl = "F5" /\ pc[s] = "returned")
         => Len(ret[s].findings) = Len(Concat(heap, ret[s].results))

\* C16: the grade of a score is A up to 10, B up to 30, C up to 50, D up to
\* 70 and F above; so 30 gives B and 31 gives C.
C16_GradeThresholds ==
  callFn \in GradeFns
    => callOut.grade = (IF callArg.score <= 10 THEN "A"
                        ELSE IF callArg.score <= 30 THEN "B"
                        ELSE IF callArg.score <= 50 THEN "C"
                        ELSE IF callArg.score <= 70 THEN "D"
                        ELSE "F")

\* the severity scale the risk score function f uses, in tenths
ScaleOf(f, severity) ==
  IF f = "calculateRiskScore" THEN severityToScore10(severity)
  ELSE helperSeverityToScore10(severity)

RECURSIVE ScaledTotal(_, _)
ScaledTotal(f, vs) ==
  IF vs = <<>> THEN 0 ELSE ScaleOf(f, Head(vs)[1]) * Head(vs)[2] + ScaledTotal(f, Tail(vs))

\* the average of severity score times confidence, scaled to 0..100, clamped
AverageRisk(f, vs) ==
  IF vs = <<>> THEN 0
  ELSE LET a == RoundDiv(ScaledTotal(f, vs), Len(vs) * 10)
       IN IF a > 100 THEN 100 ELSE IF a < 0 THEN 0 ELSE a

\* C17: the risk score of a finding list is the average of severity score
\* times confidence over its findings, scaled to 0..100 and clamped, and so
\* lies in 0..100.
C17_RiskScoreIsClampedAverage ==
  callFn \in RiskFns
    => /\ callOut.riskScore = AverageRisk(callFn, callArg.vulnerabilities)
       /\ callOut.riskScore \in 0..100

\* C18: no two findings of one ScanResult agree on type, masked evidence and
\* location.
C18_FindingsDeduplicated ==
  callFn \in MergeFns
    => \A i \in 1..Len(callOut.vulnerabilities), j \in 1..Len(callOut.vulnerabilities) :
         i # j => callOut.vulnerabilities[i] # callOut.vulnerabilities[j]

\* what a caller holding the value r sees in it: the ScanResult object it
\* refers to, the findings of each detector result, the finding list
Seen(r, objs, h) ==
  [obj |-> IF r.obj = 0 THEN NoObj ELSE objs[r.obj],
   results |-> [i \in 1..Len(r.results) |-> FindingsOf(h, r.results[i].ref)],
   findings |-> r.findings]

\* C19: what a scan call returned never changes afterwards: not the
\* ScanResult, not a detector result in it, not a finding list.
C19_ReturnedValuesImmutable ==
  [][\A s \in Scans :
       (pc[s] = "returned" /\ ret[s].kind = "result")
         => Seen(ret'[s], scanObj', heap') = Seen(ret[s], scanObj, heap)]_vars

\* C20: the report of a scan that could not run (the page could not be read)
\* differs from the report of every scan that ran and found nothing.
C20_NotRunDistinctFromClean ==
  (callFn = "runScan" /\ ~callArg.domData.received)
    => \A d \in DomData :
         (d.received /\ runScan(d).summary.total = 0)
           => callOut.reply # startScanReply(runScan(d))

\* the progress event call s emitted last, after the step
LastEvent(s) == emitted'[s][Len(emitted'[s])]

\* C21: (part_012 engine) whenever a scan call gets a detector's result, it
\* emits one progress event in the same step, and the event carries a detector
\* name of this scan, the fraction of detectors done and the number of
\* findings collected so far.
C21_ProgressAfterEachDetector ==
  [][impl = "P12"
       => \A s \in Scans :
            Len(results'[s]) > Len(results[s])
              => /\ Len(emitted'[s]) = Len(emitted[s]) + 1
                 /\ LastEvent(s).scanId = s
                 /\ LastEvent(s).currentScanner \in Detectors
                 /\ LastEvent(s).progress = (idx[s] * 100) \div NumDetectors
                 /\ LastEvent(s).findingsCount = Len(allFindings'[s])]_vars

\* the locations of `contents` where the token v occurs
LocationsOf(contents, v) ==
  {i \in 1..Len(contents) : \E k \in 1..Len(contents[i]) : contents[i][k] = v}

\* C22: within one scan, for every pattern and every raw value the pattern
\* matches somewhere, exactly one finding has that pattern and that value, and
\* it cites the first location holding the value.
C22_OneFindingPerPatternAndValue ==
  callFn \in DedupFns
    => \A q \in 1..Len(PatternsOf(callFn)), v \in Tokens :
         LET locs == LocationsOf(callArg.contents, v)
             hits == {i \in 1..Len(callOut.matches) :
                        /\ callOut.matches[i].pattern = PatternsOf(callFn)[q]
                        /\ callOut.matches[i].secret = v}
         IN locs # {}
              => /\ Cardinality(hits) = 1
                 /\ \A i \in hits : \A l \in locs : callOut.matches[i].location <= l

\* C23: a match is accepted only if every declared must-include term is in
\* its context window, whatever the case, and no declared must-exclude term is.
C23_ContextTermsRespected ==
  (callFn \in ContextFns /\ callOut.accepted)
    => /\ \A term \in callArg.pattern.mustInclude.terms :
            ContextIncludes(callArg.context, term)
       /\ \A term \in callArg.pattern.mustExclude.terms :
            ~ContextIncludes(callArg.context, term)

\* the claimed order of the environments, most risky first
RiskierThan(e1, e2) ==
  <<e1, e2>> \in {<<"production", "staging">>, <<"production", "development">>,
                  <<"production", "unknown">>, <<"staging", "development">>,
                  <<"staging", "unknown">>, <<"development", "unknown">>}

\* C24: the environment multiplier used in a finding's score is strictly
\* greater than the multiplier of every environment ranked below:
\* production > staging > development > unknown.
C24_MultiplierOrdered ==
  callFn = "calculateSeverityScore"
    => \A e \in Environments :
         RiskierThan(callArg.environment, e)
           => callOut.multiplier > getEnvironmentRiskMultiplier(e)

\* C25: every finding of an entropy analyzer comes from a candidate whose
\* confidence is at least 0.6, and its severity is medium or high.
C25_EntropyFindingsConfident ==
  callFn \in EntropyFns
    => \A i \in 1..Len(callOut.entropyFindings) :
         /\ calculateConfidence(callArg.candidate) >= ConfidenceThreshold
         /\ callOut.entropyFindings[i].severity \in {"medium", "high"}

\* the severity half of C25 alone
C25_SeverityNeverCritical ==
  callFn \in EntropyFns
    => \A i \in 1..Len(callOut.entropyFindings) :
         callOut.entropyFindings[i].severity \in {"medium", "high"}

\* a token decodes as two valid records when header and payload both parse
DecodesAsTwoRecords(token) == token.header # "bad" /\ token.payload.json = "ok"

\* C26: a token that does not decode as two valid records gives no finding
\* from the token analyzer and raises no error.
C26_UndecodableTokenSkipped ==
  (callFn \in TokenFns /\ ~DecodesAsTwoRecords(callArg.token))
    => (callOut.tokenFindings = <<>> /\ ~callOut.threw)

\* the error half of C26 alone, and the case of an unparsable payload
C26_BadPayloadSkipped ==
  (callFn \in TokenFns /\ callArg.token.payload.json = "bad")
    => (callOut.tokenFindings = <<>> /\ ~callOut.threw)

\* the findings of the call that name the privileged role: the storage
\* analyzer has a type of its own for it, the key scanner reports its
\* 'Supabase Service Role Key' pattern under the type api_key_exposed
RoleFindings ==
  {i \in 1..Len(callOut.tokenFindings) :
     callOut.tokenFindings[i].type \in {"service_role_key_exposed", "api_key_exposed"}}

\* C27: a token whose decoded payload has the role claim service_role gives
\* one critical finding of the privileged-role type, expired or not.
C27_PrivilegedRoleCritical ==
  (callFn \in RoleFns /\ isJWT(callArg.token) /\ DecodesAsTwoRecords(callArg.token)
     /\ callArg.token.payload.role = "service_role")
    => /\ Cardinality(RoleFindings) = 1
       /\ \A i \in RoleFindings : callOut.tokenFindings[i].severity = "critical"

\* C27 for the storage analyzer alone
C27_StorageAnalyzerCritical ==
  (callFn = "analyzeJWT" /\ isJWT(callArg.token) /\ DecodesAsTwoRecords(callArg.token)
     /\ callArg.token.payload.role = "service_role")
    => /\ Cardinality(RoleFindings) = 1
       /\ \A i \in RoleFindings : callOut.tokenFindings[i].severity = "critical"

\* the findings in the results call s returned, as <<call, detector, n>> of
\* the run that added them
ReturnedFindings(s) ==
  UNION {{FindingsOf(heap, ret[s].results[i].ref)[j] :
            j \in 1..Len(FindingsOf(heap, ret[s].results[i].ref))} :
         i \in 1..Len(ret[s].results)}

\* C28: a finding added by a detector run that had timed out does not appear
\* in the result of a later run of the same detector instance.
C28_LateFindingsStayOut ==
  Race => \A s \in Scans : \A f \in ReturnedFindings(s) :
            ~(f[1] < s /\ timedOut[f[1]][f[2]])

\* a start-scan handler is executing: started and not yet returned or thrown
HandlerExecuting(h) == hpc[h] \in {"query", "dom", "scan"}

\* the scanning indicator of the background: isScanning() of the
\* orchestrator, the set `scanning`, the isScanning flag of a tab's state
IndicatorSet ==
  CASE bg = "SO" -> activeScanTabId # 0
    [] bg = "SW" -> scanning # {}
    [] OTHER -> \E t \in Tabs : tabStates[t] # 0 /\ isScanning[tabStates[t]]

\* C29: whenever no scan is executing the scanning indicator is false,
\* however the scans ended.
C29_IdleMeansNotScanning ==
  (bg \in {"SO", "SW", "P14"} /\ \A h \in Handlers : ~HandlerExecuting(h)) => ~IndicatorSet

\* C29 for the two services that clear the flag in a finally block
C29_FinallyClearsFlag ==
  (bg \in {"SW", "P14"} /\ \A h \in Handlers : ~HandlerExecuting(h)) => ~IndicatorSet

\* GET_RESULTS for tab t: results.get(tab.id) || null (SW),
\* tabStates.get(tabId)?.lastScan || null (W5); 0 = null
GetResults(t) ==
  IF bg = "SW" THEN tabResults[t]
  ELSE IF tabStates[t] # 0 THEN lastScan[tabStates[t]] ELSE 0

\* C30: the result stored for a tab, and returned by GET_RESULTS for it, is
\* of the page the tab shows now, never of a page it has left.
C30_ResultOfCurrentPage ==
  bg \in {"SW", "W5"} =>
    \A t \in Tabs \ closed : GetResults(t) # 0 => GetResults(t) = page[t]

\* what the 'loading' listener of SW does establish: the step that loads a
\* new page leaves no result stored for the tab
C30_LoadingClearsResult ==
  [][bg = "SW" => \A t \in Tabs : page'[t] # page[t] => tabResults'[t] = 0]_vars

====
